---- MODULE Spec2Model ----
(***************************************************************************)
(* Model of @cailiao/locks (src/src/index.ts): the static class Locks, a   *)
(* thin wrapper around the platform lock manager navigator.locks.          *)
(*                                                                         *)
(* A request is identified by its index in opt (1, 2, ...), which is also  *)
(* the identity of the Lock object the manager creates for it.  Promises   *)
(* are modelled by their state: "pending", a fulfilment value, or the name *)
(* of the rejection reason.                                                *)
(***************************************************************************)
EXTENDS Integers, Sequences, FiniteSets, TLC

\* ------------------------------------------------------------------ bounds
MaxReq == 3          \* calls of Locks.request / Locks.query in one behaviour
MaxOptions == 2      \* options set away from the plain call, over all calls
MaxInput == 4        \* calls plus options set, over one behaviour

\* ------------------------------------------------------------- input sets
\* "" is a lock name like any other for the manager (only names that start
\* with "-" are refused); status() tests the name for truthiness.
Names == {"", "a"}
NameSeq == <<"", "a">>
Modes == {"shared", "exclusive"}
DefaultTimeout == 10000
NullHandle == 0

VARIABLES
  opt,           \* opt[r]: the arguments of call r (name, opt, callback)
  held,          \* the manager's held lock set, in grant order
  queueMap,      \* the manager's lock request queue of each name
  waiting,       \* promise of the grant callback passed at index.ts:55
  mgr,           \* promise returned by #manager.request for call r
  waitLock,      \* promise returned to the caller (index.ts:33,70)
  lockMap,       \* locks that have a done() entry in #lockMap
  released,      \* calls whose settlement steps the manager has run
  timeoutFired,  \* calls whose AbortSignal.timeout has fired
  signalFired,   \* calls whose caller-supplied signal has fired
  innerReason    \* abort reason of innerSigbalCtrl.signal, "none" if not aborted

vars == <<opt, held, queueMap, waiting, mgr, waitLock, lockMap, released,
          timeoutFired, signalFired, innerReason>>

Ids == 1..Len(opt)

Range(s) == {s[i] : i \in 1..Len(s)}

\* Variant of Remove: splice(indexOf(x), 1), which drops the last element when
\* x is not in the sequence.
RemoveSplice(s, x) ==
  IF \E i \in 1..Len(s) : s[i] = x
  THEN SelectSeq(s, LAMBDA y : y # x)
  ELSE SubSeq(s, 1, Len(s) - 1)

Remove(s, x) == SelectSeq(s, LAMBDA y : y # x)

\* Settling a promise that is already settled is a no-op.
Resolve(p, v) == IF p = "pending" THEN v ELSE p

\* ----------------------------------------------------------- Locks.request
\* index.ts:37-38: const { timeout = 1e4, steal } = opt;
\*                 timeoutSignal = timeout && !steal ? AbortSignal.timeout(timeout) : void 0
HasTimeoutSignal(o) == o.kind = "request" /\ o.timeout # 0 /\ ~o.steal

\* index.ts:40-52: the signal handed to the manager is the inner controller's
\* signal when the caller gave one, else the timeout signal (possibly absent).
HasManagerSignal(o) == o.kind = "request" /\ (o.signal # "none" \/ HasTimeoutSignal(o))

\* ---------------------------------------------------- navigator.locks model
\* LockManager.request(): the option combinations the manager refuses with a
\* NotSupportedError before any request is queued.
NotSupported(o) ==
  \/ o.steal /\ o.ifAvailable
  \/ o.steal /\ o.mode # "exclusive"
  \/ HasManagerSignal(o) /\ (o.steal \/ o.ifAvailable)

HeldOf(os, h, name) == SelectSeq(h, LAMBDA l : os[l].name = name)

\* Variant of Grantable: a shared request ignores the held locks.
GrantableSharedBlind(os, r, q, h) ==
  IF q # <<>> /\ q[1] # r THEN FALSE
  ELSE IF os[r].mode = "exclusive"
       THEN \A i \in 1..Len(h) : os[h[i]].name # os[r].name
       ELSE TRUE

\* "grantable": only the head of the queue, and compatible with the held set.
Grantable(os, r, q, h) ==
  IF q # <<>> /\ q[1] # r THEN FALSE
  ELSE IF os[r].mode = "exclusive"
       THEN \A i \in 1..Len(h) : os[h[i]].name # os[r].name
       ELSE \A i \in 1..Len(h) :
              ~(os[h[i]].name = os[r].name /\ os[h[i]].mode = "exclusive")

\* Variant of Enqueue: the request is put at the head of the queue.
EnqueueFront(q, r) == <<r>> \o q

\* "enqueue request in queue" and, for a steal, "prepend request in queue".
Enqueue(q, r) == Append(q, r)

\* Variant of Prepend: the stealing request joins the queue at the back.
PrependAtBack(q, r) == Append(q, r)

Prepend(q, r) == <<r>> \o q

\* A steal removes every held lock of the name from the held set.
Evict(os, h, name) == SelectSeq(h, LAMBDA l : os[l].name # name)

\* Variant of ProcessQueue: a request that is not grantable is skipped and the
\* scan goes on behind it.
RECURSIVE ProcessQueueSkip(_, _, _)
ProcessQueueSkip(os, q, h) ==
  IF q = <<>>
  THEN [queue |-> q, held |-> h, granted |-> {}]
  ELSE IF Grantable(os, q[1], <<q[1]>>, h)
  THEN LET rest == ProcessQueueSkip(os, Tail(q), Append(h, q[1]))
       IN  [rest EXCEPT !.granted = @ \cup {q[1]}]
  ELSE LET rest == ProcessQueueSkip(os, Tail(q), h)
       IN  [rest EXCEPT !.queue = <<q[1]>> \o @]

\* Variant of ProcessQueue: one release grants at most the head of the queue.
ProcessQueueOne(os, q, h) ==
  IF q = <<>> \/ ~Grantable(os, q[1], q, h)
  THEN [queue |-> q, held |-> h, granted |-> {}]
  ELSE [queue |-> Tail(q), held |-> Append(h, q[1]), granted |-> {q[1]}]

\* "process the lock request queue": grant from the head until the first
\* request that is not grantable.
RECURSIVE ProcessQueue(_, _, _)
ProcessQueue(os, q, h) ==
  IF q = <<>> \/ ~Grantable(os, q[1], q, h)
  THEN [queue |-> q, held |-> h, granted |-> {}]
  ELSE LET rest == ProcessQueue(os, Tail(q), Append(h, q[1]))
       IN  [rest EXCEPT !.granted = @ \cup {q[1]}]

\* Variant of GrantWaitLock: the grant callback does not call getLock(lock).
GrantWaitLockNever(os, wl, G) == wl

\* The grant callback of index.ts:55-64 run for every lock in G, on top of the
\* promise states wl (waitLock) and wt (waiting); the query callback
\* (index.ts:86) returns at once.
GrantWaitLock(os, wl, G) ==
  [r \in 1..Len(os) |->
     IF r \in G /\ os[r].kind = "request" THEN Resolve(wl[r], "lock") ELSE wl[r]]

GrantWaiting(os, wt, G) ==
  [r \in 1..Len(os) |->
     IF r \in G THEN (IF os[r].kind = "query" THEN "fulfilled" ELSE "running")
     ELSE wt[r]]

GrantLockMap(os, G) ==
  lockMap \cup {r \in G : os[r].kind = "request" /\ ~os[r].callback}

\* The manager changed the held set to h and the queue of name to q: process
\* that queue and run the grant callbacks.
Commit(os, name, h, q, wl, wt) ==
  LET p == ProcessQueue(os, q, h)
  IN  /\ held' = p.held
      /\ queueMap' = [queueMap EXCEPT ![name] = p.queue]
      /\ waitLock' = GrantWaitLock(os, wl, p.granted)
      /\ waiting' = GrantWaiting(os, wt, p.granted)
      /\ lockMap' = GrantLockMap(os, p.granted)

\* The .catch of index.ts:65-68 forwards a rejection of the manager's promise
\* to the caller's promise.
Catch(wl, r, err) == [wl EXCEPT ![r] = Resolve(@, err)]

\* ------------------------------------------------------------------ inputs
\* The plain call is Locks.request(name, { mode, timeout: 0 }); every option set
\* beyond it (ifAvailable, steal, signal, a timeout, a callback) counts as one.
B2N(b) == IF b THEN 1 ELSE 0

OptionCount(o) ==
  B2N(o.ifAvailable) + B2N(o.steal) + B2N(o.signal # "none")
    + B2N(o.timeout # 0) + B2N(o.callback)

RECURSIVE OptionsUsed(_)
OptionsUsed(os) ==
  IF os = <<>> THEN 0 ELSE OptionCount(Head(os)) + OptionsUsed(Tail(os))

RequestOptions ==
  [kind : {"request"}, name : Names, mode : Modes, ifAvailable : BOOLEAN,
   steal : BOOLEAN, signal : {"none", "fresh", "aborted"},
   timeout : {0, DefaultTimeout}, callback : BOOLEAN]

\* Variant of QueryOptions: the probe is a shared request.
QueryOptionsShared(name) ==
  [kind |-> "query", name |-> name, mode |-> "shared", ifAvailable |-> FALSE,
   steal |-> FALSE, signal |-> "none", timeout |-> 0, callback |-> FALSE]

QueryOptions(name) ==
  [kind |-> "query", name |-> name, mode |-> "exclusive", ifAvailable |-> FALSE,
   steal |-> FALSE, signal |-> "none", timeout |-> 0, callback |-> FALSE]

\* Names are interchangeable for the manager: "a" is used only once "" has
\* been.
NamesInOrder(o) == o.name = "a" => \E r \in Ids : opt[r].name = ""

WithinBounds(o) ==
  /\ Len(opt) < MaxReq
  /\ NamesInOrder(o)
  /\ OptionsUsed(opt) + OptionCount(o) <= MaxOptions
  /\ Len(opt) + 1 + OptionsUsed(opt) + OptionCount(o) <= MaxInput

\* The options a further call can still set, grouped by their count.
OptionsByCost ==
  [k \in 0..5 |-> {o \in RequestOptions : OptionCount(o) = k}]

Budget ==
  LET used == OptionsUsed(opt)
      a == MaxOptions - used
      b == MaxInput - Len(opt) - 1 - used
  IN  IF a < b THEN a ELSE b

AffordableOptions == UNION {OptionsByCost[k] : k \in 0..Budget}

\* -------------------------------------------------------------------- Init
Init ==
  /\ opt = <<>>
  /\ held = <<>>
  /\ queueMap = [n \in Names |-> <<>>]
  /\ waiting = <<>>
  /\ mgr = <<>>
  /\ waitLock = <<>>
  /\ lockMap = {}
  /\ released = {}
  /\ timeoutFired = {}
  /\ signalFired = {}
  /\ innerReason = <<>>

\* ----------------------------------------------------------------- actions
\* A call of #manager.request with options o (index.ts:54-55, 86): validation,
\* then the queued steps of "request a lock".
Submit(o) ==
  LET r  == Len(opt) + 1
      os == Append(opt, o)
      q  == queueMap[o.name]
      wl == Append(waitLock, IF o.kind = "request" THEN "pending" ELSE "none")
      wt == Append(waiting, "none")
      mg == Append(mgr, "pending")
  IN
  /\ opt' = os
  /\ innerReason' = Append(innerReason, "none")
  /\ UNCHANGED <<released, timeoutFired, signalFired>>
  /\ IF NotSupported(o)
     THEN /\ mgr' = [mg EXCEPT ![r] = "NotSupportedError"]
          /\ waitLock' = Catch(wl, r, "NotSupportedError")
          /\ waiting' = wt
          /\ UNCHANGED <<held, queueMap, lockMap>>
     ELSE IF o.steal
     THEN LET evicted == Range(HeldOf(os, held, o.name))
          IN  /\ mgr' = [x \in 1..r |-> IF x \in evicted THEN "AbortError" ELSE mg[x]]
              /\ Commit(os, o.name, Evict(os, held, o.name), Prepend(q, r),
                        [x \in 1..r |-> IF x \in evicted
                                        THEN Resolve(wl[x], "AbortError") ELSE wl[x]],
                        wt)
     ELSE IF o.ifAvailable /\ ~Grantable(os, r, q, held)
     THEN \* the callback is invoked with null (index.ts:56-63)
          /\ mgr' = mg
          /\ waitLock' = [wl EXCEPT ![r] = Resolve(@, "null")]
          /\ waiting' = [wt EXCEPT ![r] = "running"]
          /\ UNCHANGED <<held, queueMap, lockMap>>
     ELSE /\ mgr' = mg
          /\ Commit(os, o.name, held, Enqueue(q, r), wl, wt)

Request(o) ==
  /\ WithinBounds(o)
  /\ Submit(o)

Query(name) ==
  /\ WithinBounds(QueryOptions(name))
  /\ Submit(QueryOptions(name))

\* Variant of DoneCall: the handle is looked up by the name of its lock, so
\* every session on that name is ended.
DoneCallByName(h) ==
  IF h \in lockMap
  THEN [r \in 1..Len(waiting) |->
          IF r \in lockMap /\ opt[r].name = opt[h].name /\ waiting[r] = "running"
          THEN "fulfilled" ELSE waiting[r]]
  ELSE waiting

\* Locks.release(lock) (index.ts:77-79): this.#lockMap.get(lock)?.() calls the
\* done() of index.ts:60, which settles waitDone once; the entry is never
\* deleted from #lockMap.
DoneCall(h) ==
  IF h \in lockMap
  THEN [waiting EXCEPT ![h] = IF @ = "running" THEN "fulfilled" ELSE @]
  ELSE waiting

\* The handles a caller can pass: the locks it was given, and null.
Handles == {r \in Ids : waitLock[r] = "lock"} \cup {NullHandle}

\* A release that changes nothing is a stuttering step.
Release(h) ==
  /\ h \in Handles
  /\ DoneCall(h) # waiting
  /\ waiting' = DoneCall(h)
  /\ UNCHANGED <<opt, held, queueMap, mgr, waitLock, lockMap, released,
                 timeoutFired, signalFired, innerReason>>

\* The caller's callback (index.ts:58) settles: it returns or it throws.
CallbackSettle(r, outcome) ==
  /\ r \in Ids
  /\ opt[r].kind = "request" /\ opt[r].callback
  /\ waiting[r] = "running"
  /\ waiting' = [waiting EXCEPT ![r] = outcome]
  /\ UNCHANGED <<opt, held, queueMap, mgr, waitLock, lockMap, released,
                 timeoutFired, signalFired, innerReason>>

Granted(r) == opt[r].kind = "query" \/ waitLock[r] = "lock"

Outcome(r) == IF waiting[r] = "fulfilled" THEN "fulfilled" ELSE "CallbackError"

\* Variant of Settled: the manager does not wait for the callback's promise.
SettledOrRunning(r) == waiting[r] \in {"running", "fulfilled", "rejected"}

Settled(r) == waiting[r] \in {"fulfilled", "rejected"}

\* The manager's steps upon settlement of the grant callback's promise: remove
\* the lock from the held set, process the queue of its name, settle the
\* promise of #manager.request; a rejection reaches the .catch of index.ts:65.
ReleaseLock(r) ==
  /\ r \in Ids \ released
  /\ Settled(r)
  /\ Granted(r)
  /\ released' = released \cup {r}
  /\ mgr' = [mgr EXCEPT ![r] = Resolve(@, Outcome(r))]
  /\ Commit(opt, opt[r].name, Remove(held, r), queueMap[opt[r].name],
            IF opt[r].kind = "request" /\ mgr[r] = "pending" /\ Outcome(r) # "fulfilled"
            THEN Catch(waitLock, r, Outcome(r)) ELSE waitLock,
            waiting)
  /\ UNCHANGED <<opt, timeoutFired, signalFired, innerReason>>

\* The callback was invoked with null (ifAvailable miss): the manager settles
\* its promise with the callback's result.
NullSettle(r) ==
  /\ r \in Ids \ released
  /\ Settled(r)
  /\ ~Granted(r)
  /\ released' = released \cup {r}
  /\ mgr' = [mgr EXCEPT ![r] = Resolve(@, Outcome(r))]
  /\ waitLock' = IF Outcome(r) # "fulfilled"
                 THEN Catch(waitLock, r, Outcome(r)) ELSE waitLock
  /\ UNCHANGED <<opt, held, queueMap, waiting, lockMap, timeoutFired,
                 signalFired, innerReason>>

\* Variant of Abort: the request is removed from the queue but the queue is
\* not processed.
AbortNoProcess(r, reason) ==
  IF r \in Range(queueMap[opt[r].name])
  THEN /\ mgr' = [mgr EXCEPT ![r] = Resolve(@, reason)]
       /\ queueMap' = [queueMap EXCEPT ![opt[r].name] = Remove(@, r)]
       /\ waitLock' = Catch(waitLock, r, reason)
       /\ UNCHANGED <<held, waiting, lockMap>>
  ELSE UNCHANGED <<held, queueMap, waiting, mgr, waitLock, lockMap>>

\* Variant of Abort: the promise is rejected but the request stays queued.
AbortKeepQueued(r, reason) ==
  IF r \in Range(queueMap[opt[r].name])
  THEN /\ mgr' = [mgr EXCEPT ![r] = Resolve(@, reason)]
       /\ Commit(opt, opt[r].name, held, queueMap[opt[r].name],
                 Catch(waitLock, r, reason), waiting)
  ELSE UNCHANGED <<held, queueMap, waiting, mgr, waitLock, lockMap>>

\* Variant of Abort: the abort algorithm stays registered after the grant and
\* takes the lock away from its holder.
AbortGranted(r, reason) ==
  IF r \in Range(queueMap[opt[r].name]) \cup Range(held)
  THEN /\ mgr' = [mgr EXCEPT ![r] = Resolve(@, reason)]
       /\ Commit(opt, opt[r].name, Remove(held, r), Remove(queueMap[opt[r].name], r),
                 Catch(waitLock, r, reason), waiting)
  ELSE UNCHANGED <<held, queueMap, waiting, mgr, waitLock, lockMap>>

\* The manager's "abort the request" algorithm, registered on the signal of
\* index.ts:55 while the request is queued: remove it, process the queue,
\* reject its promise with the signal's reason.
Abort(r, reason) ==
  IF r \in Range(queueMap[opt[r].name])
  THEN /\ mgr' = [mgr EXCEPT ![r] = Resolve(@, reason)]
       /\ Commit(opt, opt[r].name, held, Remove(queueMap[opt[r].name], r),
                 Catch(waitLock, r, reason), waiting)
  ELSE UNCHANGED <<held, queueMap, waiting, mgr, waitLock, lockMap>>

\* innerSigbalCtrl.abort(reason) (index.ts:44, 48): the first abort sets the
\* reason of the inner signal and runs its abort algorithms.
InnerAbort(r, reason) ==
  IF innerReason[r] = "none"
  THEN /\ innerReason' = [innerReason EXCEPT ![r] = reason]
       /\ Abort(r, reason)
  ELSE UNCHANGED <<innerReason, held, queueMap, waiting, mgr, waitLock, lockMap>>

\* AbortSignal.timeout(timeout) fires (index.ts:38).  Without a caller signal
\* it is the manager's signal (index.ts:52), reason TimeoutError; with one, the
\* listener of index.ts:47-49 aborts the inner controller with its argument,
\* which is the abort Event, not the signal's reason.
TimeoutFire(r) ==
  /\ r \in Ids \ timeoutFired
  /\ HasTimeoutSignal(opt[r])
  /\ timeoutFired' = timeoutFired \cup {r}
  /\ IF opt[r].signal = "none"
     THEN Abort(r, "TimeoutError") /\ UNCHANGED innerReason
     ELSE InnerAbort(r, "Event")
  /\ UNCHANGED <<opt, released, signalFired>>

\* The caller's signal fires: the listener of index.ts:43-45 calls
\* innerSigbalCtrl.abort() with no reason, i.e. an AbortError.  A signal that
\* was already aborted at the call never dispatches the event.
SignalAbort(r) ==
  /\ r \in Ids \ signalFired
  /\ opt[r].kind = "request" /\ opt[r].signal = "fresh"
  /\ signalFired' = signalFired \cup {r}
  /\ InnerAbort(r, "AbortError")
  /\ UNCHANGED <<opt, released, timeoutFired>>

Next ==
  \/ \E o \in AffordableOptions : Request(o)
  \/ \E name \in Names : Query(name)
  \/ \E h \in 0..MaxReq : Release(h)
  \/ \E r \in 1..MaxReq, outcome \in {"fulfilled", "rejected"} : CallbackSettle(r, outcome)
  \/ \E r \in 1..MaxReq : ReleaseLock(r)
  \/ \E r \in 1..MaxReq : NullSettle(r)
  \/ \E r \in 1..MaxReq : TimeoutFire(r)
  \/ \E r \in 1..MaxReq : SignalAbort(r)

Spec == Init /\ [][Next]_vars

\* ------------------------------------------------------------ vocabulary
Holders(name) == HeldOf(opt, held, name)

Waiters(name) == queueMap[name]

IsExclusive(r) == opt[r].mode = "exclusive"

IsShared(r) == opt[r].mode = "shared"

IsRequest(r) == opt[r].kind = "request"

IsQuery(r) == opt[r].kind = "query"

HasCallback(o) == o.kind = "request" /\ o.callback

\* A step that is one call of Locks.request or Locks.query; the call is Len(opt').
IsCall == Len(opt') = Len(opt) + 1

\* -------------------------------------------------------------------- C1
\* C1: for every name, an exclusive holder is the only holder of the name; the
\* holders of a name are one exclusive lock or any number of shared locks, and
\* no lock is held twice.
MutualExclusion ==
  /\ \A name \in Names :
       LET hs == Holders(name)
       IN  (\E i \in 1..Len(hs) : IsExclusive(hs[i])) => Len(hs) = 1
  /\ \A i, j \in 1..Len(held) : held[i] = held[j] => i = j

\* Two shared holders of a name with an exclusive request waiting behind them,
\* and on the other side an exclusive holder with a waiter: contention in
\* both modes has been reached.
SharedHoldersWithExclusiveWaiter ==
  \E name \in Names :
    /\ Len(Holders(name)) >= 2
    /\ Waiters(name) # <<>>
    /\ IsExclusive(Waiters(name)[1])

\* -------------------------------------------------------------------- C2
\* C2: of two exclusive requests without steal on one name, the later one is
\* granted only when the earlier one is neither waiting nor holding any more:
\* same-name exclusive requests are granted one at a time in submission order.
PlainExclusive(r) == IsRequest(r) /\ IsExclusive(r) /\ ~opt[r].steal

ExclusiveFifo ==
  \A i, j \in Ids :
    (/\ i < j
     /\ opt[i].name = opt[j].name
     /\ PlainExclusive(i) /\ PlainExclusive(j)
     /\ waitLock[j] = "lock")
    => /\ i \notin Range(Waiters(opt[i].name))
       /\ i \notin Range(held)
       /\ waitLock[i] = "lock" => (i \in released \/ mgr[i] = "AbortError")

\* R1 has been released, R2 holds the lock, R3 is still waiting.
ThreeExclusiveInOrder ==
  \E i, j, k \in Ids :
    /\ i < j /\ j < k
    /\ opt[i].name = opt[j].name /\ opt[j].name = opt[k].name
    /\ PlainExclusive(i) /\ PlainExclusive(j) /\ PlainExclusive(k)
    /\ i \in released
    /\ j \in Range(held)
    /\ k \in Range(Waiters(opt[k].name))

\* -------------------------------------------------------------------- C3
\* C3: when a shared request without steal and without ifAvailable arrives for
\* a name whose holders are all shared, it becomes a holder in that step if and
\* only if the queue of the name is empty; otherwise it is queued behind the
\* requests already waiting, and no shared request is ever a holder while a
\* request submitted before it still waits.
SharedArrival ==
  LET r == Len(opt')
      o == opt'[r]
  IN  (/\ IsCall
       /\ o.kind = "request" /\ o.mode = "shared"
       /\ ~o.steal /\ ~o.ifAvailable
       /\ \A i \in 1..Len(Holders(o.name)) : IsShared(Holders(o.name)[i]))
      => /\ (r \in Range(held')) <=> (Waiters(o.name) = <<>>)
         /\ (r \in Range(held')) <=> (waitLock'[r] = "lock")
         /\ Waiters(o.name) # <<>> => queueMap'[o.name] = Append(Waiters(o.name), r)

SharedBehindWaiters ==
  \A j \in Ids :
    (IsRequest(j) /\ IsShared(j) /\ waitLock[j] = "lock")
    => \A i \in Range(Waiters(opt[j].name)) : i > j

SharedAdmission == [][SharedArrival /\ SharedBehindWaiters']_vars

\* A shared holder, an exclusive waiter, and a shared request that arrived
\* later and waits behind it.
SharedQueuedBehindExclusive ==
  \E name \in Names :
    /\ Len(Holders(name)) >= 1
    /\ IsShared(Holders(name)[1])
    /\ Len(Waiters(name)) >= 2
    /\ IsExclusive(Waiters(name)[1])
    /\ IsRequest(Waiters(name)[2]) /\ IsShared(Waiters(name)[2])

\* -------------------------------------------------------------------- C4
\* C4: release(handle) is total and idempotent.  In every reachable state,
\* releasing a handle whose session has not ended ends exactly that session;
\* releasing a handle already released, a handle without a done() entry or
\* null leaves the whole state as it is; and a session that has ended stays
\* ended: its lock leaves the held set when the manager runs the release and
\* never comes back, whatever is released afterwards.
ReleaseTotal ==
  \A h \in Handles :
    IF h \in lockMap /\ waiting[h] = "running"
    THEN DoneCall(h) = [waiting EXCEPT ![h] = "fulfilled"]
    ELSE DoneCall(h) = waiting

ReleasedStaysReleased ==
  \A h \in lockMap :
    waiting[h] = "fulfilled"
    => /\ waiting'[h] = "fulfilled"
       /\ h \in released => h \in released' /\ h \notin Range(held')
       /\ h \notin Range(held) => h \notin Range(held')

ReleaseIdempotent == [][ReleaseTotal' /\ ReleasedStaysReleased]_vars

\* A handle has been released and its lock freed, and another handle-mode
\* session now holds the same name: a second release of the first handle is
\* the case where a wrong release would hurt.
ReleasedHandleNextHolder ==
  \E h \in lockMap \cap released, g \in lockMap :
    /\ g # h
    /\ opt[g].name = opt[h].name
    /\ g \in Range(held)
    /\ waiting[g] = "running"

\* -------------------------------------------------------------------- C5
\* C5: a request whose cancellation source has fired is no longer pending, and
\* a request rejected by cancellation carries the reason of the source that
\* fired first: TimeoutError if it was the timeout, AbortError if it was the
\* caller's signal, with a timeout alone as well as with a signal and a
\* timeout together.
Cancelled(r) == IsRequest(r) /\ waitLock[r] \in {"TimeoutError", "AbortError", "Event"}

CancellationReason ==
  \A r \in Ids :
    /\ (r \in timeoutFired \cup signalFired) => waitLock[r] # "pending"
    /\ (Cancelled(r) /\ r \in timeoutFired /\ r \notin signalFired)
         => waitLock[r] = "TimeoutError"
    /\ (Cancelled(r) /\ r \in signalFired /\ r \notin timeoutFired)
         => waitLock[r] = "AbortError"

\* -------------------------------------------------------------------- C6
\* C6: a call with ifAvailable (no steal, no caller signal, any timeout) that
\* is not immediately grantable resolves with null in the step of the call,
\* and no ifAvailable request is ever in a queue.
WouldGrant(name, mode) ==
  /\ Waiters(name) = <<>>
  /\ \A i \in 1..Len(Holders(name)) :
       mode = "shared" /\ IsShared(Holders(name)[i])

IfAvailableCall ==
  LET r == Len(opt')
      o == opt'[r]
  IN  (/\ IsCall
       /\ o.kind = "request" /\ o.ifAvailable /\ ~o.steal /\ o.signal = "none"
       /\ ~WouldGrant(o.name, o.mode))
      => waitLock'[r] = "null"

IfAvailableNeverQueued ==
  \A name \in Names : \A r \in Range(Waiters(name)) : ~opt[r].ifAvailable

IfAvailableResolvesNull == [][IfAvailableCall /\ IfAvailableNeverQueued']_vars

\* -------------------------------------------------------------------- C7
\* C7 as stated: every call with steal on a name that has holders becomes the
\* only holder of the name in the step of the call, and the request of every
\* previous holder is rejected with AbortError.
StealCall(accepted(_)) ==
  LET r == Len(opt')
      o == opt'[r]
      old == Range(Holders(o.name))
  IN  (/\ IsCall
       /\ o.kind = "request" /\ o.steal
       /\ accepted(o)
       /\ old # {})
      => /\ HeldOf(opt', held', o.name) = <<r>>
         /\ waitLock'[r] = "lock"
         /\ queueMap'[o.name] = Waiters(o.name)
         /\ \A e \in old : mgr'[e] = "AbortError" /\ waitLock'[e] = waitLock[e]

AnyOptions(o) == TRUE

StealOptions(o) == o.mode = "exclusive" /\ ~o.ifAvailable /\ o.signal = "none"

CallbackGranted(r) == HasCallback(opt[r]) /\ waitLock[r] = "lock"

HeldWhileRunning ==
  \A r \in Ids :
    CallbackGranted(r)
    => /\ (waiting[r] = "running" /\ mgr[r] # "AbortError")
            => /\ r \in Range(held)
               /\ \A x \in Range(Holders(opt[r].name)) \ {r} :
                    IsShared(x) /\ IsShared(r)
       /\ r \in released => Settled(r) /\ r \notin Range(held)

LeavesOnlyWhenSettled ==
  \A r \in Ids :
    (CallbackGranted(r) /\ r \in Range(held) /\ r \notin Range(held'))
    => \/ Settled(r) /\ released' = released \cup {r}
       \/ IsCall /\ opt'[Len(opt')].steal /\ mgr'[r] = "AbortError"

CallbackHoldsLock == [][HeldWhileRunning' /\ LeavesOnlyWhenSettled]_vars

\* A callback failed, its lock has been released, and a later request for the
\* same name that had to wait for it holds the name now.
FailedCallbackReleased ==
  \E r, x \in Ids :
    /\ CallbackGranted(r) /\ IsExclusive(r)
    /\ waiting[r] = "rejected" /\ r \in released
    /\ x > r /\ opt[x].name = opt[r].name
    /\ x \in Range(held)

\* -------------------------------------------------------------------- C9
\* C9: when the callback of a granted callback-mode request has failed and the
\* manager has run the release, the promise returned to the caller is rejected
\* with the callback's failure and the lock is not held.
CallbackFailurePropagates ==
  \A r \in Ids :
    (HasCallback(opt[r]) /\ waitLock[r] # "null"
       /\ waiting[r] = "rejected" /\ r \in released)
    => /\ waitLock[r] = "CallbackError"
       /\ r \notin Range(held)

\* ------------------------------------------------------------------- C10
\* What holds of every probe of Locks.query in every state: a probe that still
\* waits is not grantable, a probe that holds is the only holder of its name,
\* the promise of a probe is fulfilled only after the manager released it, and
\* then the probe is neither a holder nor a waiter.
ProbeStates ==
  \A p \in Ids :
    IsQuery(p)
    => /\ p \in Range(Waiters(opt[p].name))
            => ~(Holders(opt[p].name) = <<>> /\ Waiters(opt[p].name)[1] = p)
       /\ p \in Range(held) => Holders(opt[p].name) = <<p>>
       /\ (mgr[p] = "pending")
            <=> (p \in Range(Waiters(opt[p].name)) \/ p \in Range(held))
       /\ mgr[p] = "fulfilled" => p \in released

\* The call of Locks.query(name): the probe is granted in the step of the call
\* exactly when a request of each mode in modes would be grantable.
QueryCall(modes) ==
  LET p == Len(opt')
      o == opt'[p]
  IN  (IsCall /\ o.kind = "query")
      => \A m \in modes : (p \in Range(held')) <=> WouldGrant(o.name, m)

\* C10 as stated: the probe of query(name) is granted at once exactly when a
\* new request for name would be immediately grantable, whatever its mode;
\* it stays unresolved while it is not grantable and is granted as soon as it
\* is; once resolved the probe is not a holder.
QueryAnyMode == [][QueryCall(Modes) /\ ProbeStates']_vars

\* C10 (amended): the probe of query(name) is an exclusive request: it is
\* granted at once exactly when an exclusive request for name would be
\* immediately grantable (no holder, shared ones included, and no waiter); it
\* stays unresolved while it is not grantable and is granted as soon as it is;
\* its promise is fulfilled only after the probe was released, and then the
\* probe is not a holder.
QueryExclusiveProbe == [][QueryCall({"exclusive"}) /\ ProbeStates']_vars

\* A probe waits on a name that has only shared holders and no other waiter: a
\* shared request would be granted at once, the query is not resolved.
ProbeBehindSharedHolder ==
  \E p \in Ids :
    /\ IsQuery(p)
    /\ Waiters(opt[p].name) = <<p>>
    /\ Holders(opt[p].name) # <<>>
    /\ \A x \in Range(Holders(opt[p].name)) : IsShared(x)

\* ------------------------------------------- Locks.list, find and status
\* LockManager.query(): the snapshot lists the held locks and, queue by queue,
\* the pending requests, each as a LockInfo (name, mode).
LockInfo(r) == [name |-> opt[r].name, mode |-> opt[r].mode]

RECURSIVE PendingIds(_)
PendingIds(k) ==
  IF k = 0 THEN <<>> ELSE PendingIds(k - 1) \o queueMap[NameSeq[k]]

\* index.ts:102-104: list() is the manager's snapshot.
List ==
  LET p == PendingIds(Len(NameSeq))
  IN  [held |-> [i \in 1..Len(held) |-> LockInfo(held[i])],
       pending |-> [i \in 1..Len(p) |-> LockInfo(p[i])]]

\* index.ts:93-97: held?.some(lock => lock.name === name) || pending?.some(...)
Find(name) ==
  \/ \E i \in 1..Len(List.held) : List.held[i].name = name
  \/ \E i \in 1..Len(List.pending) : List.pending[i].name = name

\* ------------------------------------------------------------------- C11
\* C11: query(name) has no side effect on other callers.  In every reachable
\* state find(name) reports a lock only if a request of Locks.request holds or
\* waits for name, no probe is an entry of the snapshot, and no request waits
\* that would be granted if the probes were not there.
WithoutProbes(s) == SelectSeq(s, IsRequest)

ProbeNotListed ==
  /\ \A p \in Range(held) \cup Range(PendingIds(Len(NameSeq))) : ~IsQuery(p)
  /\ \A name \in Names :
       Find(name) => \E r \in Ids :
                       /\ IsRequest(r) /\ opt[r].name = name
                       /\ r \in Range(held) \cup Range(Waiters(name))

ProbeDelaysNobody ==
  \A name \in Names :
    LET q == WithoutProbes(Waiters(name))
        hs == WithoutProbes(Holders(name))
    IN  q # <<>>
        => \/ IsExclusive(q[1]) /\ hs # <<>>
           \/ \E i \in 1..Len(hs) : IsExclusive(hs[i])

QueryHasNoSideEffect == ProbeNotListed /\ ProbeDelaysNobody

\* ------------------------------------------------------------------- C12
\* C12: once a request has been granted, the expiry of its timeout and the
\* firing of its caller-supplied signal change neither the held set, nor the
\* queues, nor any promise: the lock stays held and the returned promise stays
\* resolved with the handle.  A handle-mode lock that was neither released nor
\* stolen is in the held set in every state.
Fires(r) ==
  r \in (timeoutFired' \ timeoutFired) \cup (signalFired' \ signalFired)

GrantedUnaffected ==
  \A r \in Ids :
    (waitLock[r] = "lock" /\ Fires(r))
    => /\ held' = held /\ queueMap' = queueMap
       /\ waitLock' = waitLock /\ mgr' = mgr
       /\ waiting' = waiting /\ lockMap' = lockMap /\ released' = released

HandleHeld ==
  \A r \in lockMap :
    (waiting[r] = "running" /\ mgr[r] # "AbortError")
    => r \in Range(held) /\ waitLock[r] = "lock"

TimeoutsBoundWaiting == [][GrantedUnaffected /\ HandleHeld']_vars

\* A handle-mode request made with a caller signal and a timeout was granted;
\* both sources have fired since, and the lock is still held.
HeldAfterBothFired ==
  \E r \in lockMap :
    /\ r \in timeoutFired /\ r \in signalFired
    /\ waitLock[r] = "lock"
    /\ waiting[r] = "running"
    /\ r \in Range(held)

\* ---------------------------------------------------------- Locks.status
\* The arguments of status(name: string | Lock): a name, a handle the caller
\* was given, or null.
StatusArgs ==
  [kind : {"name"}, name : Names] \cup [kind : {"handle"}, lock : Handles]

\* index.ts:115: innerName = typeof name === 'string' ? name : name?.name,
\* and index.ts:118: if (innerName), which is false for undefined (a null
\* handle) and for the empty string.
HasInnerName(arg) ==
  IF arg.kind = "name" THEN TRUE ELSE arg.lock # NullHandle

InnerName(arg) == IF arg.kind = "name" THEN arg.name ELSE opt[arg.lock].name

Truthy(arg) == HasInnerName(arg) /\ InnerName(arg) # ""

Undefined == [undefined |-> TRUE]

\* index.ts:122-124: the loops keep the last entry that has the name.
LastNamed(infos, name) ==
  LET idx == {i \in 1..Len(infos) : infos[i].name = name}
  IN  IF idx = {} THEN Undefined
      ELSE infos[CHOOSE i \in idx : \A j \in idx : j <= i]

\* index.ts:110-136
Status(arg) ==
  IF ~Truthy(arg) THEN Undefined
  ELSE LET heldLock == LastNamed(List.held, InnerName(arg))
           pendingLock == LastNamed(List.pending, InnerName(arg))
           info == IF heldLock # Undefined THEN heldLock ELSE pendingLock
       IN  IF heldLock = Undefined /\ pendingLock = Undefined THEN Undefined
           ELSE [held |-> heldLock # Undefined, pending |-> pendingLock # Undefined,
                 name |-> info.name, mode |-> info.mode]

\* ------------------------------------------------------------------- C13
\* C13: on every snapshot and for every name, or handle of a granted request,
\* status returns undefined if and only if the name (the handle's name) is in
\* neither the held nor the pending list; otherwise the held flag of the
\* record says whether a held entry has the name and the pending flag whether
\* a pending entry has it.
InHeldList(name) == \E i \in 1..Len(List.held) : List.held[i].name = name

InPendingList(name) == \E i \in 1..Len(List.pending) : List.pending[i].name = name

StatusOf(arg) ==
  LET name == InnerName(arg)
  IN  /\ (Status(arg) = Undefined) <=> (~InHeldList(name) /\ ~InPendingList(name))
      /\ Status(arg) # Undefined
           => /\ Status(arg).held <=> InHeldList(name)
              /\ Status(arg).pending <=> InPendingList(name)
              /\ Status(arg).name = name

StatusOnSnapshot == \A arg \in StatusArgs : HasInnerName(arg) => StatusOf(arg)

\* The same for the names that are not the empty string.
StatusOfTruthyName == \A arg \in StatusArgs : Truthy(arg) => StatusOf(arg)

\* status reports a name that is held and has a waiter at the same time.
StatusHeldAndPending ==
  \E arg \in StatusArgs :
    Truthy(arg) /\ Status(arg) # Undefined /\ Status(arg).held /\ Status(arg).pending

\* ------------------------------------------------- one name, a long queue
\* A second specification for the order of the grants: up to MaxQueueReq
\* requests for one name, without cancellation; at most MaxQueueOptions of the
\* options steal and callback are set over a behaviour.
MaxQueueReq == 5
MaxQueueOptions == 1

QueueOptions ==
  {o \in RequestOptions :
     /\ o.name = NameSeq[1]
     /\ ~o.ifAvailable /\ o.signal = "none" /\ o.timeout = 0}

QueueRequest(o) ==
  /\ Len(opt) < MaxQueueReq
  /\ OptionsUsed(opt) + OptionCount(o) <= MaxQueueOptions
  /\ Submit(o)

NextQueue ==
  \/ \E o \in QueueOptions : QueueRequest(o)
  \/ \E h \in 1..MaxQueueReq : Release(h)
  \/ \E r \in 1..MaxQueueReq, outcome \in {"fulfilled", "rejected"} : CallbackSettle(r, outcome)
  \/ \E r \in 1..MaxQueueReq : ReleaseLock(r)

SpecQueue == Init /\ [][NextQueue]_vars

\* ------------------------------------------------------------------- C14
\* C14: in every step in which a holder of a name leaves the held set (its
\* release by the manager after the handle was released or the callback
\* settled, or its eviction by a steal), the waiters of that name (headed by
\* the stealing request, if any) are granted from the head: a prefix of the
\* queue joins the remaining holders in queue order, each of its requests
\* compatible with the holders before it, the rest stays queued in its order,
\* and the first request that stays is not compatible with the new holders.
CompatibleWith(os, r, hs) ==
  IF os[r].mode = "exclusive" THEN hs = <<>>
  ELSE \A i \in 1..Len(hs) : os[hs[i]].mode = "shared"

ScanOnLeave ==
  \A name \in Names :
    LET gone == Range(Holders(name)) \ Range(held')
        base == SelectSeq(Holders(name), LAMBDA x : x \notin gone)
        q0 == IF IsCall /\ opt'[Len(opt')].name = name
              THEN <<Len(opt')>> \o Waiters(name) ELSE Waiters(name)
    IN  gone # {}
        => \E k \in 0..Len(q0) :
             /\ HeldOf(opt', held', name) = base \o SubSeq(q0, 1, k)
             /\ queueMap'[name] = SubSeq(q0, k + 1, Len(q0))
             /\ \A i \in 1..k :
                  CompatibleWith(opt', q0[i], base \o SubSeq(q0, 1, i - 1))
             /\ k < Len(q0)
                  => ~CompatibleWith(opt', q0[k + 1], base \o SubSeq(q0, 1, k))

GrantsFromHead == [][ScanOnLeave]_vars

\* The example of the claim: the exclusive holder 1 has been released, the
\* shared requests 2 and 3 hold the name, the exclusive request 4 and the
\* shared request 5 are still queued, in that order.
TwoSharedGrantedTwoQueued ==
  /\ Len(opt) = 5
  /\ \A r \in Ids : PlainExclusive(r) <=> r \in {1, 4}
  /\ \A r \in Ids : IsRequest(r) /\ opt[r].name = opt[1].name /\ ~opt[r].steal
  /\ released = {1}
  /\ Holders(opt[1].name) = <<2, 3>>
  /\ Waiters(opt[1].name) = <<4, 5>>

\* ------------------------------------------------------------------- C15
\* A step in which a source of cancellation of the waiting request r fires.
CancelStep(r) == r \in Range(Waiters(opt[r].name)) /\ Fires(r)

OtherNamesUnchanged(r) ==
  \A name \in Names \ {opt[r].name} :
    /\ queueMap'[name] = queueMap[name]
    /\ HeldOf(opt', held', name) = Holders(name)

CancelledNeverGranted ==
  \A r \in Ids :
    Cancelled(r) => /\ r \notin Range(held)
                    /\ r \notin Range(Waiters(opt[r].name))
                    /\ r \notin lockMap

\* C15 as stated: cancelling a pending request removes exactly that request
\* from the queue of its name and changes nothing else in the step: the held
\* set, the order of the remaining waiters and every other name are unchanged;
\* the cancelled request is never granted afterwards.
CancelRemovesOnly ==
  \A r \in Ids :
    CancelStep(r)
    => /\ queueMap'[opt[r].name] = Remove(Waiters(opt[r].name), r)
       /\ held' = held
       /\ OtherNamesUnchanged(r)
       /\ Cancelled(r)'

CancellationFrame == [][CancelRemovesOnly /\ CancelledNeverGranted']_vars

\* C15 (amended): cancelling a pending request removes that request from the
\* queue of its name and rejects it; the holders stay holders, the remaining
\* waiters keep their order, every other name is unchanged, and the cancelled
\* request is never granted afterwards.  The only other change of the step:
\* when the cancelled request was the head of the queue, the waiters behind it
\* that are grantable now are granted, from the head, in the same step.
CancelRemovesAndGrants ==
  \A r \in Ids :
    CancelStep(r)
    => LET q0 == Remove(Waiters(opt[r].name), r)
       IN  /\ \E k \in 0..Len(q0) :
                /\ held' = held \o SubSeq(q0, 1, k)
                /\ queueMap'[opt[r].name] = SubSeq(q0, k + 1, Len(q0))
                /\ k > 0 => Waiters(opt[r].name)[1] = r
                /\ \A x \in Ids \ {r} :
                     waitLock'[x] # waitLock[x] => x \in Range(SubSeq(q0, 1, k))
           /\ OtherNamesUnchanged(r)
           /\ Cancelled(r)'

CancellationGrantsBehind == [][CancelRemovesAndGrants /\ CancelledNeverGranted']_vars

\* A shared holder, an exclusive waiter whose timeout fired, and a shared
\* request submitted after it that holds the name together with the first.
SharedGrantedOnTimeout ==
  \E h, r, s \in Ids :
    /\ h < r /\ r < s
    /\ opt[h].name = opt[r].name /\ opt[s].name = opt[r].name
    /\ IsShared(h) /\ IsExclusive(r) /\ IsShared(s)
    /\ waitLock[r] = "TimeoutError"
    /\ h \in Range(held) /\ s \in Range(held)
    /\ waiting[h] = "running" /\ h \notin released

\* ------------------------------------------------------------------- C16
\* index.ts:43 and 47: with a caller signal the request adds an 'abort'
\* listener to the caller's signal and one to the timeout signal, if any.  No
\* line of the source removes a listener, and none is added with once or with
\* a signal of its own, so both stay registered.
Listeners(r) ==
  IF opt[r].kind = "request" /\ opt[r].signal # "none"
  THEN {"signal"} \cup (IF HasTimeoutSignal(opt[r]) THEN {"timeout"} ELSE {})
  ELSE {}

BothSources(r) ==
  opt[r].kind = "request" /\ opt[r].signal # "none" /\ HasTimeoutSignal(opt[r])

NoListenerLeft ==
  \A r \in Ids : (BothSources(r) /\ waitLock[r] # "pending") => Listeners(r) = {}

LateFiringInert ==
  \A r \in Ids :
    (BothSources(r) /\ waitLock[r] # "pending" /\ Fires(r))
    => UNCHANGED <<opt, held, queueMap, waiting, mgr, waitLock, lockMap,
                   released, innerReason>>

\* C16: when a request made with both a caller signal and a timeout has
\* settled, no listener of it remains registered on either source, and a later
\* firing of a source triggers no action for that request: nothing but the
\* state of the source changes.
ListenersDetached == [][NoListenerLeft' /\ LateFiringInert]_vars

\* ------------------------------------------------------------------- C17
\* C17: a request without steal and without ifAvailable whose caller signal is
\* already aborted at the call is rejected with AbortError and is neither a
\* holder nor a waiter, in every state.
AbortedAtCallRejected ==
  \A r \in Ids :
    (IsRequest(r) /\ opt[r].signal = "aborted" /\ ~opt[r].steal /\ ~opt[r].ifAvailable)
    => /\ waitLock[r] = "AbortError"
       /\ r \notin Range(held)
       /\ r \notin Range(Waiters(opt[r].name))

\* ------------------------------------------------------------------- C18
\* C18: no waiter is left stuck.  In every reachable state the head waiter of
\* each name is not compatible with the holders of the name; and in a step
\* that cancels the head waiter, a waiter right behind it that is compatible
\* with the holders is granted in that step.
NoWaiterStuck ==
  \A name \in Names :
    Waiters(name) # <<>> => ~CompatibleWith(opt, Waiters(name)[1], Holders(name))

HeadCancelGrantsNext ==
  \A r \in Ids :
    LET q == Waiters(opt[r].name)
    IN  (/\ CancelStep(r)
         /\ q[1] = r /\ Len(q) >= 2
         /\ CompatibleWith(opt, q[2], Holders(opt[r].name)))
        => /\ q[2] \in Range(held')
           /\ q[2] \notin Range(queueMap'[opt[r].name])
           /\ IsRequest(q[2]) => waitLock'[q[2]] = "lock"

HeadWaiterIncompatible == [][HeadCancelGrantsNext /\ NoWaiterStuck']_vars

\* A shared holder, an exclusive waiter that the caller aborted, and a shared
\* request submitted after it that holds the name together with the first.
SharedGrantedOnAbort ==
  \E h, r, s \in Ids :
    /\ h < r /\ r < s
    /\ opt[h].name = opt[r].name /\ opt[s].name = opt[r].name
    /\ IsShared(h) /\ IsExclusive(r) /\ IsShared(s)
    /\ opt[r].signal = "fresh" /\ r \in signalFired
    /\ waitLock[r] = "AbortError"
    /\ h \in Range(held) /\ s \in Range(held)
    /\ waiting[h] = "running" /\ h \notin released

\* ------------------------------------------------------------------- C19
\* C19: the handle of a lock that a steal took away is inert.  In every step
\* in which the handle of an evicted holder is released, or in which the
\* manager runs the release of that holder, the held set, the queues and the
\* promises of every other request are unchanged: the lock of the stealer (or
\* of a later holder) stays held and no waiter is granted.
Evicted(e) == e \in lockMap /\ waitLock[e] = "lock" /\ mgr[e] = "AbortError"

ReleaseStepOf(e) ==
  \/ waiting'[e] # waiting[e]
  \/ e \in released' \ released

EvictedReleaseChangesNothing ==
  \A e \in Ids :
    (Evicted(e) /\ ReleaseStepOf(e))
    => /\ held' = held /\ queueMap' = queueMap
       /\ waitLock' = waitLock /\ mgr' = mgr /\ lockMap' = lockMap
       /\ \A x \in Ids \ {e} : waiting'[x] = waiting[x]

EvictedNotHeld == \A e \in Ids : Evicted(e) => e \notin Range(held)

StolenHandleInert == [][EvictedReleaseChangesNothing /\ EvictedNotHeld']_vars

\* The evicted holder's handle has been released and the manager has run the
\* release; the stealer still holds the name and a waiter is still queued.
StealerHoldsAfterEvictedRelease ==
  \E e, s, w \in Ids :
    /\ Evicted(e) /\ e \in released /\ waiting[e] = "fulfilled"
    /\ opt[s].steal /\ s > e /\ opt[s].name = opt[e].name
    /\ s \in Range(held) /\ waiting[s] = "running"
    /\ opt[w].name = opt[e].name
    /\ w \in Range(Waiters(opt[e].name))

\* ------------------------------------------------- a specification with
\* fairness.  Up to MaxLiveReq calls for one name, with at most MaxLiveOptions
\* options set over a behaviour.
MaxLiveReq == 3
MaxLiveOptions == 1

\* The calls that can wait: a call with ifAvailable settles in the step of the
\* call, and a signal already aborted at the call never fires.
LiveOptions ==
  {o \in RequestOptions :
     o.name = NameSeq[1] /\ ~o.ifAvailable /\ o.signal # "aborted"}

LiveBounds(o) ==
  /\ Len(opt) < MaxLiveReq
  /\ OptionsUsed(opt) + OptionCount(o) <= MaxLiveOptions

LiveRequest(o) == LiveBounds(o) /\ Submit(o)

LiveQuery(name) == LiveBounds(QueryOptions(name)) /\ Submit(QueryOptions(name))

HandleReleased == \E h \in 1..MaxLiveReq : Release(h)

CallbackSettled ==
  \E r \in 1..MaxLiveReq, outcome \in {"fulfilled", "rejected"} : CallbackSettle(r, outcome)

ManagerReleases == \E r \in 1..MaxLiveReq : ReleaseLock(r)

NextLive ==
  \/ \E o \in LiveOptions : LiveRequest(o)
  \/ LiveQuery(NameSeq[1])
  \/ HandleReleased
  \/ CallbackSettled
  \/ ManagerReleases
  \/ \E r \in 1..MaxLiveReq : TimeoutFire(r)
  \/ \E r \in 1..MaxLiveReq : SignalAbort(r)

\* Every holder eventually releases (the handle is released, the callback
\* settles), and the manager's queued steps eventually run.  Nothing is
\* assumed of the timers and of the caller's signals.
FairSpec ==
  /\ Init /\ [][NextLive]_vars
  /\ WF_vars(HandleReleased)
  /\ WF_vars(CallbackSettled)
  /\ WF_vars(ManagerReleases)

\* ------------------------------------------------------------------- C20
\* C20: under fairness, if every granted holder eventually releases, every
\* call eventually settles: the promise returned by each request is eventually
\* resolved or rejected, and so is the promise returned by each query.
Unsettled(r) ==
  /\ r \in Ids
  /\ IF opt[r].kind = "request" THEN waitLock[r] = "pending" ELSE mgr[r] = "pending"

EachCallSettles == \A r \in 1..MaxLiveReq : Unsettled(r) ~> ~Unsettled(r)

\* A settled promise stays settled and a behaviour has finitely many calls, so
\* the same is: from some point on, no call is unsettled.
EveryCallSettles == <>[](\A r \in 1..MaxLiveReq : ~Unsettled(r))

\* Three calls for one name have all settled and nothing is held or queued:
\* an exclusive request that was released, a query resolved after it, and a
\* request that was granted after the probe.
AllSettledAfterWaiting ==
  \E h, p, r \in Ids :
    /\ h < p /\ p < r
    /\ IsRequest(h) /\ IsExclusive(h) /\ IsQuery(p) /\ IsRequest(r)
    /\ waitLock[h] = "lock" /\ mgr[p] = "fulfilled" /\ waitLock[r] = "lock"
    /\ {h, p, r} \subseteq released
    /\ held = <<>>
    /\ \A name \in Names : Waiters(name) = <<>>
====
